---- MODULE Spec2Model ----
(***************************************************************************)
(* A model of dinghy's iOS backend (src/src/ios/mod.rs): the session       *)
(* guard (ensure_session / Drop for Session), the operations built on it   *)
(* (install_app, start_remote_lldb, run_app, IosDevice::from), the support *)
(* image lookup (device_support_path), the developer image mount and the   *)
(* lldb proxy relay (start_lldb_proxy::server).                            *)
(*                                                                         *)
(* Strings whose characters matter (versions, directory names) are         *)
(* sequences of one-character strings.  A native status code is an i32;    *)
(* its u32 cast is the pair <<high 16 bits, low 16 bits>> of the same 32   *)
(* bits, so that the cast of the source keeps its width.                   *)
(***************************************************************************)
EXTENDS Integers, Sequences, FiniteSets, TLC

VARIABLES
    \* ---- the caller's thread: a stack of function frames
    stack,      \* call stack, innermost frame last
    ret,        \* value returned by the frame popped last
    trace,      \* native calls of the current operation, in order
    held,       \* ids of the Sessions that exist (opened, not yet dropped)
    nextSid,    \* id the next Session gets
    fails,      \* environment failures injected so far in this operation
    mounted,    \* device state: the developer image is mounted
    results,    \* results of the finished top-level operations
    mounts,     \* results mount_developper_image returned, in order
    devices,    \* the registry: Vec<IosDevice> behind the mutex
    lock,       \* the registry mutex: "free", "held" or "poisoned"
    hostDirs,   \* DeviceSupport directory names, in read_dir order
    \* ---- the notification thread and the readers of the registry
    notes,      \* notifications delivered to device_callback, with their outcome
    snaps,      \* what the last two calls of devices() returned
    worker,     \* "running", "dead" (unwound) or "aborted" (the process)
    \* ---- rustify as a function of its input
    rawIn,      \* the native value handed to rustify
    decoded,    \* <<what rustify returned>>, <<>> before the call
    \* ---- device_support_path as a function of its inputs
    pVersion,   \* ProductVersion of the device
    pResult,    \* what the lookup selected
    pPc,        \* "input" or "done"
    \* ---- the proxy thread
    bridge,     \* "accepting", "relaying", "dead" (the thread panicked)
    conn,       \* number of connections accepted so far
    cPending,   \* bytes the client sent, not yet read by the bridge
    dPending,   \* bytes the device sent, not yet read by the bridge
    cClosed,    \* the client closed its side
    dClosed,    \* the device closed its side
    cSent,      \* number of bytes the client sent so far
    dSent,      \* number of bytes the device sent so far
    cRead,      \* bytes read from the client on this connection
    dRead,      \* bytes read from the device on this connection
    dWritten,   \* bytes written to the device on this connection
    cWritten,   \* bytes written to the client on this connection
    lastIo,     \* outcome of the last relay iteration
    ends,       \* how each finished connection ended
    ioFails,    \* I/O errors injected so far
    qOpen,      \* a further client has connected and waits to be accepted
    qPending,   \* bytes the waiting client sent, unread in its socket
    qSent       \* number of bytes the waiting client sent

regVars == <<notes, snaps, worker>>
decVars == <<rawIn, decoded>>
sessVars == <<stack, ret, trace, held, nextSid, fails, mounted, results, mounts,
              devices, lock, hostDirs, regVars, decVars>>
pathVars == <<pVersion, pResult, pPc>>
relayVars == <<bridge, conn, cPending, dPending, cClosed, dClosed, cSent, dSent,
               cRead, dRead, dWritten, cWritten, lastIo, ends, ioFails>>
queueVars == <<qOpen, qPending, qSent>>
vars == <<sessVars, pathVars, relayVars, queueVars>>

-----------------------------------------------------------------------------
(* Bounds of the model *)

MaxFailures == 2    \* environment failures injected per operation
MaxPayload == 3     \* bytes each side sends
MaxConns == 2       \* local connections the bridge is offered
MaxIoFails == 2     \* I/O errors injected into the relay
MaxDirs == 3        \* entries of a DeviceSupport listing
MaxQueued == 1      \* bytes a client sends before it is accepted

-----------------------------------------------------------------------------
(* Strings *)

Min(a, b) == IF a < b THEN a ELSE b

\* str::starts_with
StartsWith(s, p) ==
    /\ Len(p) <= Len(s)
    /\ SubSeq(s, 1, Len(p)) = p

\* str::split("."): the tokens between separators; n separators give n+1 tokens
RECURSIVE Split(_, _)
Split(s, sep) ==
    IF \A i \in 1..Len(s) : s[i] # sep
    THEN <<s>>
    ELSE LET i == CHOOSE k \in 1..Len(s) :
                      /\ s[k] = sep
                      /\ \A j \in 1..(k-1) : s[j] # sep
         IN  <<SubSeq(s, 1, i-1)>> \o Split(SubSeq(s, i+1, Len(s)), sep)

\* Iterator::take(n)
Take(q, n) == SubSeq(q, 1, Min(n, Len(q)))

\* [&str]::join(sep)
RECURSIVE Join(_, _)
Join(q, sep) ==
    IF Len(q) = 0 THEN <<>>
    ELSE IF Len(q) = 1 THEN q[1]
    ELSE q[1] \o <<sep>> \o Join(Tail(q), sep)

\* v.split(".").take(2).collect::<Vec<_>>().join(".")
TwoTokenVersion(v) == Join(Take(Split(v, "."), 2), ".")

\* a loop that keeps the longest matching name instead of the first
RECURSIVE ScanDirsLongest(_, _)
ScanDirsLongest(dirs, two) ==
    IF dirs = <<>> THEN <<>>
    ELSE LET rest == ScanDirsLongest(Tail(dirs), two) IN
         IF ~StartsWith(Head(dirs), two) THEN rest
         ELSE IF rest # <<>> /\ Len(rest[1]) > Len(Head(dirs)) THEN rest
         ELSE <<Head(dirs)>>

\* the directory loop of device_support_path: the first entry, in read_dir
\* order, whose name starts with the two-token version
RECURSIVE ScanDirs(_, _)
ScanDirs(dirs, two) ==
    IF dirs = <<>> THEN <<>>
    ELSE IF StartsWith(Head(dirs), two) THEN <<Head(dirs)>>
    ELSE ScanDirs(Tail(dirs), two)

-----------------------------------------------------------------------------
(* Native values and their decoding *)

\* A native value (CFTypeRef): its concrete type t and, by type, the characters
\* of a string or the bytes of a buffer (s), a number (n) with whether it
\* converts to an i64 (conv), or whether it is the kCFBooleanTrue pointer (b)
Raw(t, s, n, conv, b) == [t |-> t, s |-> s, n |-> n, conv |-> conv, b |-> b]

Null == Raw("null", <<>>, 0, FALSE, FALSE)
CFStringRaw(s) == Raw("CFString", s, 0, FALSE, FALSE)
CFDataRaw(s) == Raw("CFData", s, 0, FALSE, FALSE)
CFNumberRaw(n, conv) == Raw("CFNumber", <<>>, n, conv, FALSE)
CFBooleanRaw(b) == Raw("CFBoolean", <<>>, 0, FALSE, b)
CFArrayRaw == Raw("CFArray", <<>>, 0, FALSE, FALSE)

Ok(x) == [ok |-> TRUE, val |-> x]
Err == [ok |-> FALSE, val |-> <<>>]

\* enum Value
ValueString(s) == [tag |-> "String", s |-> s, n |-> 0, b |-> FALSE]
ValueData(s) == [tag |-> "Data", s |-> s, n |-> 0, b |-> FALSE]
ValueI64(n) == [tag |-> "I64", s |-> <<>>, n |-> n, b |-> FALSE]
ValueBoolean(b) == [tag |-> "Boolean", s |-> <<>>, n |-> 0, b |-> b]

\* a decoder that answers an unknown value with an empty default
rustifyDefault(raw) ==
    IF raw.t = "CFString" THEN Ok(<<ValueString(raw.s)>>)
    ELSE IF raw.t = "CFData" THEN Ok(<<ValueData(raw.s)>>)
    ELSE IF raw.t = "CFNumber" /\ raw.conv THEN Ok(<<ValueI64(raw.n)>>)
    ELSE IF raw.t = "CFBoolean" THEN Ok(<<ValueBoolean(raw.b)>>)
    ELSE Ok(<<ValueData(<<>>)>>)

rustify(raw) ==
    IF raw.t = "CFString" THEN Ok(<<ValueString(raw.s)>>)
    ELSE IF raw.t = "CFData" THEN Ok(<<ValueData(raw.s)>>)
    ELSE IF raw.t = "CFNumber" /\ raw.conv THEN Ok(<<ValueI64(raw.n)>>)
    ELSE IF raw.t = "CFBoolean" THEN Ok(<<ValueBoolean(raw.b)>>)
    ELSE Err

\* Result<Option<Value>>: Ok(<<>>) is Ok(None), Ok(<<x>>) is Ok(Some(x))
device_read_value(raw) ==
    IF raw = Null THEN Ok(<<>>)
    ELSE IF rustify(raw).ok THEN Ok(rustify(raw).val)
    ELSE Err

\* device_support_path once the developer path is known: the version read from
\* the device and the directory listing decide the result
\* (Result<Option<PathBuf>>)
device_support_path(raw, dirs) ==
    LET os_version == device_read_value(raw) IN
    IF ~os_version.ok THEN Err
    ELSE IF os_version.val = <<>> THEN Err
    ELSE IF os_version.val[1].tag # "String" THEN Err
    ELSE Ok(ScanDirs(dirs, TwoTokenVersion(os_version.val[1].s)))

-----------------------------------------------------------------------------
(* Inputs of the support image lookup *)

V1341 == <<"1", "3", ".", "4", ".", "1">>
V134 == <<"1", "3", ".", "4">>
V133 == <<"1", "3", ".", "3">>
V13 == <<"1", "3">>
V93 == <<"9", ".", "3">>

SPhone == <<"p", "h", "o", "n", "e">>
SArm64 == <<"a", "r", "m", "6", "4">>
SArmv7s == <<"a", "r", "m", "v", "7", "s">>
SAbc123 == <<"a", "b", "c", "1", "2", "3">>

DirNames == {V133, V134, V1341, V93}

\* the listings read_dir can produce: the entries in any order
Listings ==
    {q \in UNION {[1..n -> DirNames] : n \in 0..MaxDirs} :
        \A i, j \in 1..Len(q) : i # j => q[i] # q[j]}

PathVersions ==
    {CFStringRaw(V1341), CFStringRaw(V134), CFStringRaw(V13), Null,
     CFNumberRaw(13, TRUE)}

-----------------------------------------------------------------------------
(* Idle values of the three parts of the state *)

SessIdle ==
    /\ stack = <<>>
    /\ trace = <<>>
    /\ held = {}
    /\ nextSid = 1
    /\ fails = 0
    /\ mounted = FALSE
    /\ results = <<>>
    /\ mounts = <<>>
    /\ lock = "free"
    /\ notes = <<>>
    /\ snaps = <<>>
    /\ worker = "running"

DecIdle ==
    /\ rawIn = Null
    /\ decoded = <<>>

PathIdle ==
    /\ pVersion = Null
    /\ pResult = Err
    /\ pPc = "idle"

\* what one loop iteration met: the client read, the device read (made only when
\* the client read was not Ok) and the write_all of what was read
Io(cr, dr, w) == [cr |-> cr, dr |-> dr, w |-> w]

RelayIdle ==
    /\ bridge = "none"
    /\ conn = 0
    /\ cPending = <<>>
    /\ dPending = <<>>
    /\ cClosed = FALSE
    /\ dClosed = FALSE
    /\ cSent = 0
    /\ dSent = 0
    /\ cRead = <<>>
    /\ dRead = <<>>
    /\ dWritten = <<>>
    /\ cWritten = <<>>
    /\ lastIo = Io("none", "none", "none")
    /\ ends = <<>>
    /\ ioFails = 0
    /\ qOpen = FALSE
    /\ qPending = <<>>
    /\ qSent = 0

-----------------------------------------------------------------------------
(* Native status codes (i32) *)

\* 0xe8000076 as the i32 the native call returns
AlreadyMountedRv == -402653066

\* 0xe8000076 as <<high half, low half>> of a u32
KAlreadyMounted == <<59392, 118>>

\* `r as u32`: the same 32 bits read as unsigned, as <<high half, low half>>
AsU32(r) == <<(r \div 65536) % 65536, r % 65536>>

\* 0xe8000001, an unspecific native error
GenericErrors == {-402653183}

\* what AMDeviceMountImage can answer besides success and already-mounted
MountErrors == {-402653183, -402653065, 118}

\* a mk_result that reports every code as success
mk_resultAlwaysOk(rv) == "ok"

mk_result(rv) == IF rv # 0 THEN "err" ELSE "ok"

-----------------------------------------------------------------------------
(* The caller's thread: frames, calls and returns *)

Frame(f) == [fn |-> f, pc |-> "start", sess |-> 0, res |-> "none", val |-> <<>>]

Top == stack[Len(stack)]

At(f, p) == stack # <<>> /\ Top.fn = f /\ Top.pc = p

Goto(p) == [stack EXCEPT ![Len(stack)].pc = p]

\* call f and resume at p when it returns
Call(f, p) == Append(Goto(p), Frame(f))

\* leave the function body with result r (a `?`, a return or the final value)
Exit(r) == [stack EXCEPT ![Len(stack)].pc = "exit", ![Len(stack)].res = r]

ExitVal(r, v) ==
    [stack EXCEPT ![Len(stack)].pc = "exit", ![Len(stack)].res = r,
                  ![Len(stack)].val = v]

\* bind the Session to a local of the frame and go on at p
Hold(s, p) == [stack EXCEPT ![Len(stack)].sess = s, ![Len(stack)].pc = p]

\* bind the Session, then leave the body with result r
HoldExit(s, r) ==
    [stack EXCEPT ![Len(stack)].sess = s, ![Len(stack)].pc = "exit",
                  ![Len(stack)].res = r]

Pop == SubSeq(stack, 1, Len(stack) - 1)

Returned(kind, s, v, body) == [kind |-> kind, sess |-> s, val |-> v, body |-> body]

NoRet == Returned("none", 0, <<>>, "none")

\* a native call: its name, whether it answered success, the Session it opens or
\* releases (0: none) and the Sessions that exist when it is made
Call4(c, ok, s, h) == [c |-> c, ok |-> ok, s |-> s, h |-> h]

Native(c, ok, s) == Append(trace, Call4(c, ok, s, held))

\* the answers the environment may give: failures are injected up to a budget
Rvs == IF fails < MaxFailures THEN {0} \cup GenericErrors ELSE {0}

Outcomes == IF fails < MaxFailures THEN {TRUE, FALSE} ELSE {TRUE}

Charge(bad) == fails' = IF bad THEN fails + 1 ELSE fails

sessRest == <<mounted, results, mounts, devices, lock, hostDirs, regVars, decVars,
              pathVars, relayVars,
                   queueVars>>

-----------------------------------------------------------------------------
(* ensure_session *)

AMDeviceConnect ==
    /\ At("ensure_session", "start")
    /\ \E rv \in Rvs :
        /\ trace' = Native("AMDeviceConnect", rv = 0, 0)
        /\ Charge(rv # 0)
        /\ IF mk_result(rv) = "ok"
           THEN stack' = Goto("is_paired") /\ ret' = ret
           ELSE stack' = Pop /\ ret' = Returned("err", 0, <<>>, "err")
    /\ UNCHANGED <<held, nextSid, sessRest>>

AMDeviceIsPaired ==
    /\ At("ensure_session", "is_paired")
    /\ \E paired \in (IF fails < MaxFailures THEN {0, 1} ELSE {1}) :
        /\ trace' = Native("AMDeviceIsPaired", paired # 0, 0)
        /\ Charge(paired = 0)
        /\ IF paired = 0
           THEN stack' = Pop /\ ret' = Returned("err", 0, <<>>, "err")
           ELSE stack' = Goto("validate") /\ ret' = ret
    /\ UNCHANGED <<held, nextSid, sessRest>>

AMDeviceValidatePairing ==
    /\ At("ensure_session", "validate")
    /\ \E rv \in Rvs :
        /\ trace' = Native("AMDeviceValidatePairing", rv = 0, 0)
        /\ Charge(rv # 0)
        /\ IF mk_result(rv) = "ok"
           THEN stack' = Goto("start_session") /\ ret' = ret
           ELSE stack' = Pop /\ ret' = Returned("err", 0, <<>>, "err")
    /\ UNCHANGED <<held, nextSid, sessRest>>

\* the last step: Ok(Session(dev)) exists from here on
AMDeviceStartSession ==
    /\ At("ensure_session", "start_session")
    /\ \E rv \in Rvs :
        /\ Charge(rv # 0)
        /\ IF mk_result(rv) = "ok"
           THEN /\ trace' = Native("AMDeviceStartSession", TRUE, nextSid)
                /\ held' = held \cup {nextSid}
                /\ nextSid' = nextSid + 1
                /\ ret' = Returned("ok", nextSid, <<>>, "ok")
           ELSE /\ trace' = Native("AMDeviceStartSession", FALSE, 0)
                /\ ret' = Returned("err", 0, <<>>, "err")
                /\ UNCHANGED <<held, nextSid>>
        /\ stack' = Pop
    /\ UNCHANGED sessRest

-----------------------------------------------------------------------------
(* impl Drop for Session *)

DropFrame(s) == [Frame("drop") EXCEPT !.sess = s]

\* the native calls of drop, given what each answers: a failure is logged only
DropCalls(s, rvStop, rvDisconnect) ==
    <<Call4("AMDeviceStopSession", mk_result(rvStop) = "ok", s, held),
      Call4("AMDeviceDisconnect", mk_result(rvDisconnect) = "ok", s, held)>>

\* `if !self.0.is_null()`: ensure_session only builds Session(dev) of the
\* device it was given, which is never null
SessionDrop ==
    /\ At("drop", "start")
    /\ \E rvStop \in Rvs :
        \E rvDisconnect \in (IF rvStop = 0 \/ fails + 1 < MaxFailures
                             THEN Rvs ELSE {0}) :
            LET calls == DropCalls(Top.sess, rvStop, rvDisconnect) IN
            /\ trace' = trace \o calls
            /\ fails' = fails + Cardinality({i \in 1..Len(calls) : ~calls[i].ok})
            /\ ret' = Returned("released", Top.sess,
                               [i \in 1..Len(calls) |-> calls[i].ok], "none")
    /\ held' = held \ {Top.sess}
    /\ stack' = Pop
    /\ UNCHANGED <<nextSid, sessRest>>

-----------------------------------------------------------------------------
(* Leaving a function: locals are dropped, then the value is returned *)

\* a release that runs on the success path only
DropsOnExitOnlyOk(fr) == fr.sess # 0 /\ fr.res = "ok"

\* a frame that owns a Session releases it on every exit
DropsOnExit(fr) == fr.sess # 0

\* a release whose failure is propagated to the caller
ReturnKindReleaseError(fr, last) ==
    IF last.kind = "released" /\ \E i \in 1..Len(last.val) : ~last.val[i]
    THEN "err" ELSE fr.res

\* the value the caller sees: the body's, whatever the release answered
ReturnKind(fr, last) == fr.res

ScopeExit ==
    /\ stack # <<>>
    /\ Top.pc = "exit"
    /\ IF DropsOnExit(Top)
       THEN /\ stack' = Append([stack EXCEPT ![Len(stack)].sess = 0], DropFrame(Top.sess))
            /\ UNCHANGED <<ret, results>>
       ELSE /\ stack' = Pop
            /\ ret' = Returned(ReturnKind(Top, ret), 0, Top.val, Top.res)
            /\ results' = IF Len(stack) = 1
                          THEN Append(results, [op |-> Top.fn,
                                                res |-> ReturnKind(Top, ret),
                                                body |-> Top.res])
                          ELSE results
    /\ UNCHANGED <<trace, held, nextSid, fails, mounted, mounts, devices, lock,
                   hostDirs, regVars, decVars, pathVars, relayVars,
                   queueVars>>

-----------------------------------------------------------------------------
(* install_app *)

InstallAppEnsureSession ==
    /\ At("install_app", "start")
    /\ stack' = Call("ensure_session", "ensured")
    /\ UNCHANGED <<ret, trace, held, nextSid, fails, sessRest>>

\* `let _session = ensure_session(dev)?;` then `app.as_ref().to_str().ok_or(..)?`
InstallAppPath ==
    /\ At("install_app", "ensured")
    /\ IF ret.kind # "ok"
       THEN stack' = Exit(ret.kind) /\ UNCHANGED fails
       ELSE \E utf8 \in Outcomes :
              /\ Charge(~utf8)
              /\ IF utf8
                 THEN stack' = Hold(ret.sess, "transfer")
                 ELSE stack' = HoldExit(ret.sess, "err")
    /\ UNCHANGED <<ret, trace, held, nextSid, sessRest>>

AMDeviceSecureTransferPath ==
    /\ At("install_app", "transfer")
    /\ \E rv \in Rvs :
        /\ trace' = Native("AMDeviceSecureTransferPath", rv = 0, 0)
        /\ Charge(rv # 0)
        /\ stack' = IF mk_result(rv) = "ok" THEN Goto("install") ELSE Exit("err")
    /\ UNCHANGED <<ret, held, nextSid, sessRest>>

AMDeviceSecureInstallApplication ==
    /\ At("install_app", "install")
    /\ \E rv \in Rvs :
        /\ trace' = Native("AMDeviceSecureInstallApplication", rv = 0, 0)
        /\ Charge(rv # 0)
        /\ stack' = Exit(mk_result(rv))
    /\ UNCHANGED <<ret, held, nextSid, sessRest>>

-----------------------------------------------------------------------------
(* device_support_path, as called with a device *)

\* xcode_dev_path()?: the xcode-select command
DeviceSupportPathXcode ==
    /\ At("device_support_path", "start")
    /\ \E ok \in Outcomes :
        /\ Charge(~ok)
        /\ stack' = IF ok THEN Goto("read") ELSE Exit("err")
    /\ UNCHANGED <<ret, trace, held, nextSid, sessRest>>

\* what AMDeviceCopyValue may answer for ProductVersion
VersionAnswers ==
    {CFStringRaw(V1341)} \cup (IF fails < MaxFailures THEN {Null, CFArrayRaw} ELSE {})

\* device_read_value(dev, "ProductVersion"), then read_dir and the loop
DeviceSupportPathRead ==
    /\ At("device_support_path", "read")
    /\ \E raw \in VersionAnswers, listed \in Outcomes :
        LET found == device_support_path(raw, hostDirs) IN
        /\ trace' = Native("AMDeviceCopyValue", raw # Null, 0)
        /\ Charge(raw.t # "CFString" \/ ~listed)
        /\ stack' = IF found.ok /\ listed THEN ExitVal("ok", found.val) ELSE Exit("err")
    /\ UNCHANGED <<ret, held, nextSid, sessRest>>

-----------------------------------------------------------------------------
(* mount_developper_image *)

MountEnsureSession ==
    /\ At("mount_developper_image", "start")
    /\ stack' = Call("ensure_session", "ensured")
    /\ UNCHANGED <<ret, trace, held, nextSid, fails, sessRest>>

\* the Session a `let _session = ensure_session(dev);` (no `?`) keeps alive
KeptSession(r) == IF r.kind = "ok" THEN r.sess ELSE 0

\* `let _session = ensure_session(dev);` then `device_support_path(dev)?`
MountDeviceSupportPath ==
    /\ At("mount_developper_image", "ensured")
    /\ stack' = Append(Hold(KeptSession(ret), "ds_path"), Frame("device_support_path"))
    /\ UNCHANGED <<ret, trace, held, nextSid, fails, sessRest>>

\* `.ok_or("No device support found in xcode")?`, then the signature file is read
MountReadSignature ==
    /\ At("mount_developper_image", "ds_path")
    /\ IF ret.kind # "ok" THEN stack' = Exit(ret.kind) /\ UNCHANGED fails
       ELSE IF ret.val = <<>> THEN stack' = Exit("err") /\ UNCHANGED fails
       ELSE \E ok \in Outcomes :
              /\ Charge(~ok)
              /\ stack' = IF ok THEN Goto("mount") ELSE Exit("err")
    /\ UNCHANGED <<ret, trace, held, nextSid, sessRest>>

\* the device's answer to a mount request
MountAnswers ==
    (IF mounted THEN {AlreadyMountedRv} ELSE {0})
        \cup (IF fails < MaxFailures THEN MountErrors ELSE {})

\* a mount that knows no already-mounted code
MountResultStrict(r) == mk_result(r)

\* `if r as u32 == 0xe8000076 { return Ok(()) }  mk_result(r)?;  Ok(())`
MountResult(r) ==
    IF AsU32(r) = KAlreadyMounted THEN "ok" ELSE mk_result(r)

AMDeviceMountImage ==
    /\ At("mount_developper_image", "mount")
    /\ \E r \in MountAnswers :
        /\ trace' = Native("AMDeviceMountImage", r = 0, 0)
        /\ Charge(r \in MountErrors)
        /\ mounted' = (mounted \/ r = 0)
        /\ mounts' = Append(mounts, [rv |-> r, res |-> MountResult(r), was |-> mounted])
        /\ stack' = Exit(MountResult(r))
    /\ UNCHANGED <<ret, held, nextSid, results, devices, lock, hostDirs, regVars,
                   decVars, pathVars, relayVars,
                   queueVars>>

-----------------------------------------------------------------------------
(* start_remote_debug_server *)

DebugServerMount ==
    /\ At("start_remote_debug_server", "start")
    /\ stack' = Call("mount_developper_image", "mounted")
    /\ UNCHANGED <<ret, trace, held, nextSid, fails, sessRest>>

\* a start that goes on whatever the mount returned
AfterMountIgnored(kind) == Call("ensure_session", "ensured")

\* the `?` of `mount_developper_image(dev)?;`
AfterMount(kind) ==
    IF kind # "ok" THEN Exit(kind) ELSE Call("ensure_session", "ensured")

\* `mount_developper_image(dev)?;` then ensure_session
DebugServerEnsureSession ==
    /\ At("start_remote_debug_server", "mounted")
    /\ stack' = AfterMount(ret.kind)
    /\ UNCHANGED <<ret, trace, held, nextSid, fails, sessRest>>

\* `let _session = ensure_session(dev)?;`
DebugServerSession ==
    /\ At("start_remote_debug_server", "ensured")
    /\ stack' = IF ret.kind # "ok" THEN Exit(ret.kind)
                ELSE Hold(ret.sess, "start_service")
    /\ UNCHANGED <<ret, trace, held, nextSid, fails, sessRest>>

AMDeviceStartService ==
    /\ At("start_remote_debug_server", "start_service")
    /\ \E rv \in Rvs :
        /\ trace' = Native("AMDeviceStartService", rv = 0, 0)
        /\ Charge(rv # 0)
        /\ stack' = Exit(mk_result(rv))
    /\ UNCHANGED <<ret, held, nextSid, sessRest>>

-----------------------------------------------------------------------------
(* IosDevice::start_remote_lldb *)

RemoteLldbEnsureSession ==
    /\ At("start_remote_lldb", "start")
    /\ stack' = Call("ensure_session", "ensured")
    /\ UNCHANGED <<ret, trace, held, nextSid, fails, sessRest>>

\* `let _ = ensure_session(self.ptr);`: the value is dropped at once
RemoteLldbDropSession ==
    /\ At("start_remote_lldb", "ensured")
    /\ stack' = IF ret.kind = "ok"
                THEN Append(Goto("debug_server"), DropFrame(ret.sess))
                ELSE Goto("debug_server")
    /\ UNCHANGED <<ret, trace, held, nextSid, fails, sessRest>>

RemoteLldbDebugServer ==
    /\ At("start_remote_lldb", "debug_server")
    /\ stack' = Call("start_remote_debug_server", "proxy")
    /\ UNCHANGED <<ret, trace, held, nextSid, fails, sessRest>>

\* `start_remote_debug_server(self.ptr)?` then `start_lldb_proxy(fd)?`: bind,
\* local_addr and set_nonblocking may fail; then the relay thread exists and
\* waits in accept (its steps are followed in SpecRelay and SpecProgress)
RemoteLldbProxy ==
    /\ At("start_remote_lldb", "proxy")
    /\ IF ret.kind # "ok"
       THEN stack' = Exit(ret.kind) /\ UNCHANGED <<fails, trace, bridge>>
       ELSE \E ok \in Outcomes :
              /\ Charge(~ok)
              /\ trace' = Native("start_lldb_proxy", ok, 0)
              /\ bridge' = IF ok THEN "accepting" ELSE bridge
              /\ stack' = Exit(IF ok THEN "ok" ELSE "err")
    /\ UNCHANGED <<ret, held, nextSid, mounted, results, mounts, devices, lock,
                   hostDirs, regVars, decVars, pathVars, conn, cPending, dPending,
                   cClosed, dClosed, cSent, dSent, cRead, dRead, dWritten, cWritten,
                   lastIo, ends, ioFails, queueVars>>

-----------------------------------------------------------------------------
(* IosDevice::run_app *)

RunAppRemoteLldb ==
    /\ At("run_app", "start")
    /\ stack' = Call("start_remote_lldb", "run_remote")
    /\ UNCHANGED <<ret, trace, held, nextSid, fails, sessRest>>

\* `self.start_remote_lldb()?` then run_remote
RunAppRunRemote ==
    /\ At("run_app", "run_remote")
    /\ stack' = IF ret.kind # "ok" THEN Exit(ret.kind)
                ELSE Call("run_remote", "ran")
    /\ UNCHANGED <<ret, trace, held, nextSid, fails, sessRest>>

RunAppReturn ==
    /\ At("run_app", "ran")
    /\ stack' = Exit(ret.kind)
    /\ UNCHANGED <<ret, trace, held, nextSid, fails, sessRest>>

-----------------------------------------------------------------------------
(* run_remote *)

RunRemoteEnsureSession ==
    /\ At("run_remote", "start")
    /\ stack' = Call("ensure_session", "ensured")
    /\ UNCHANGED <<ret, trace, held, nextSid, fails, sessRest>>

RunRemoteSession ==
    /\ At("run_remote", "ensured")
    /\ stack' = IF ret.kind # "ok" THEN Exit(ret.kind) ELSE Hold(ret.sess, "lookup")
    /\ UNCHANGED <<ret, trace, held, nextSid, fails, sessRest>>

AMDeviceLookupApplications ==
    /\ At("run_remote", "lookup")
    /\ \E rv \in Rvs :
        /\ trace' = Native("AMDeviceLookupApplications", rv = 0, 0)
        /\ Charge(rv # 0)
        /\ stack' = IF mk_result(rv) = "ok" THEN Goto("app_info") ELSE Exit("err")
    /\ UNCHANGED <<ret, held, nextSid, sessRest>>

\* what the dictionary holds for the bundle id: a Path string, a Path of another
\* type, or no entry (CFDictionary::get panics on a missing key)
AppInfos ==
    {"path"} \cup (IF fails < MaxFailures THEN {"not_a_string", "missing"} ELSE {})

\* `let apps: CFDictionaryRef = ptr::null();` is not mutable and the native call
\* writes it through transmute(&apps): the read that follows sees the dictionary
\* or still null, as the build decides (an optimised build keeps the null)
AppsSeen == {"written", "null"}

\* wrap_under_get_rule(apps) of a null apps panics; else apps.get(bundle_id),
\* rustify(app_info.get("Path")), then launch_lldb
RunRemoteLaunch ==
    /\ At("run_remote", "app_info")
    /\ \E seen \in AppsSeen :
        IF seen = "null"
        THEN stack' = Exit("panic") /\ UNCHANGED fails
        ELSE \E info \in AppInfos :
                /\ Charge(info # "path")
                /\ stack' = IF info = "path" THEN Call("launch_lldb", "launched")
                            ELSE IF info = "missing" THEN Exit("panic")
                            ELSE Exit("err")
    /\ UNCHANGED <<ret, trace, held, nextSid, sessRest>>

RunRemoteReturn ==
    /\ At("run_remote", "launched")
    /\ stack' = Exit(ret.kind)
    /\ UNCHANGED <<ret, trace, held, nextSid, fails, sessRest>>

-----------------------------------------------------------------------------
(* launch_lldb *)

LaunchLldbEnsureSession ==
    /\ At("launch_lldb", "start")
    /\ stack' = Call("ensure_session", "ensured")
    /\ UNCHANGED <<ret, trace, held, nextSid, fails, sessRest>>

\* `let _session = ensure_session(dev);` (no `?`), TempDir::new(..)?, then
\* device_support_path(dev)
LaunchLldbSupportPath ==
    /\ At("launch_lldb", "ensured")
    /\ \E ok \in Outcomes :
        /\ Charge(~ok)
        /\ stack' = IF ok
                    THEN Append(Hold(KeptSession(ret), "sysroot"),
                                Frame("device_support_path"))
                    ELSE HoldExit(KeptSession(ret), "err")
    /\ UNCHANGED <<ret, trace, held, nextSid, sessRest>>

\* `?.ok_or("no sysroot ?")?`, then helpers.py and the script are written
LaunchLldbScript ==
    /\ At("launch_lldb", "sysroot")
    /\ IF ret.kind # "ok" THEN stack' = Exit(ret.kind) /\ UNCHANGED fails
       ELSE IF ret.val = <<>> THEN stack' = Exit("err") /\ UNCHANGED fails
       ELSE \E ok \in Outcomes :
              /\ Charge(~ok)
              /\ stack' = IF ok THEN Goto("lldb") ELSE Exit("err")
    /\ UNCHANGED <<ret, trace, held, nextSid, sessRest>>

\* Command::new("lldb")...status()?: only a failure to run it is an error
LaunchLldbCommand ==
    /\ At("launch_lldb", "lldb")
    /\ \E ok \in Outcomes :
        /\ Charge(~ok)
        /\ trace' = Native("lldb", ok, 0)
        /\ stack' = Exit(IF ok THEN "ok" ELSE "err")
    /\ UNCHANGED <<ret, held, nextSid, sessRest>>

-----------------------------------------------------------------------------
(* IosDevice::from and the notification callback *)

\* `(*info).dev`: the handle of the notification being handled (1 when the
\* operation was not started by a notification)
CurrentDev == IF notes = <<>> THEN 1 ELSE notes[Len(notes)].dev

FromEnsureSession ==
    /\ At("from", "start")
    /\ stack' = Call("ensure_session", "ensured")
    /\ UNCHANGED <<ret, trace, held, nextSid, fails, sessRest>>

FromSession ==
    /\ At("from", "ensured")
    /\ stack' = IF ret.kind # "ok" THEN Exit(ret.kind) ELSE Hold(ret.sess, "name")
    /\ UNCHANGED <<ret, trace, held, nextSid, fails, sessRest>>

NameAnswers ==
    {CFStringRaw(SPhone)} \cup (IF fails < MaxFailures THEN {Null, CFArrayRaw} ELSE {})

CpuAnswers ==
    {CFStringRaw(SArm64), CFStringRaw(SArmv7s)}
        \cup (IF fails < MaxFailures THEN {Null, CFArrayRaw} ELSE {})

IdAnswers ==
    {CFStringRaw(SAbc123)} \cup (IF fails < MaxFailures THEN {CFArrayRaw} ELSE {})

\* device_read_value(ptr, "DeviceName")? must be Some(Value::String)
FromDeviceName ==
    /\ At("from", "name")
    /\ \E raw \in NameAnswers :
        LET name == device_read_value(raw) IN
        /\ trace' = Native("AMDeviceCopyValue", raw # Null, 0)
        /\ Charge(raw.t # "CFString")
        /\ stack' = IF name.ok /\ name.val # <<>> /\ name.val[1].tag = "String"
                    THEN [Goto("cpu") EXCEPT ![Len(stack)].val = <<name.val[1].s>>]
                    ELSE Exit("err")
    /\ UNCHANGED <<ret, held, nextSid, sessRest>>

\* the match on device_read_value(ptr, "CPUArchitecture")?
CpuOf(cpu) ==
    IF cpu.val # <<>> /\ cpu.val[1].tag = "String" /\ cpu.val[1].s = SArm64
    THEN "aarch64" ELSE "armv7"

FromCpuArchitecture ==
    /\ At("from", "cpu")
    /\ \E raw \in CpuAnswers :
        LET cpu == device_read_value(raw) IN
        /\ trace' = Native("AMDeviceCopyValue", raw # Null, 0)
        /\ Charge(raw.t # "CFString")
        /\ stack' = IF cpu.ok
                    THEN [Goto("id") EXCEPT ![Len(stack)].val = Top.val \o <<CpuOf(cpu)>>]
                    ELSE Exit("err")
    /\ UNCHANGED <<ret, held, nextSid, sessRest>>

\* rustify(AMDeviceCopyDeviceIdentifier(ptr))? must be Value::String
FromDeviceIdentifier ==
    /\ At("from", "id")
    /\ \E raw \in IdAnswers :
        LET id == rustify(raw) IN
        /\ trace' = Native("AMDeviceCopyDeviceIdentifier", TRUE, 0)
        /\ Charge(raw.t # "CFString")
        /\ stack' = IF id.ok /\ id.val[1].tag = "String"
                    THEN ExitVal("ok", <<[ptr |-> CurrentDev, id |-> id.val[1].s,
                                          name |-> Top.val[1],
                                          arch_cpu |-> Top.val[2]]>>)
                    ELSE Exit("err")
    /\ UNCHANGED <<ret, held, nextSid, sessRest>>

\* devices.lock().map(|mut devices| devices.push(IosDevice::from(device).unwrap()))
\* the guard is taken first: the closure, and IosDevice::from in it, run under it
CallbackLock ==
    /\ At("device_callback", "start")
    /\ lock = "free"
    /\ lock' = "held"
    /\ stack' = Call("from", "push")
    /\ UNCHANGED <<ret, trace, held, nextSid, fails, mounted, results, mounts,
                   devices, hostDirs, regVars, decVars, pathVars, relayVars,
                   queueVars>>

\* the outcome of the last notification is r
Noted(r) ==
    IF notes = <<>> THEN notes
    ELSE [notes EXCEPT ![Len(notes)].res = r]

\* lock() of a poisoned mutex is an Err: map does not run, `let _ =` drops it
CallbackLockPoisoned ==
    /\ At("device_callback", "start")
    /\ lock = "poisoned"
    /\ stack' = Exit("ok")
    /\ notes' = Noted("skipped")
    /\ UNCHANGED <<ret, trace, held, nextSid, fails, mounted, results, mounts,
                   devices, lock, hostDirs, snaps, worker, decVars, pathVars,
                   relayVars, queueVars>>

\* a push that drops a device whose id the registry already holds
PushedDedup(devs, d) ==
    IF \E i \in 1..Len(devs) : devs[i].id = d.id THEN devs ELSE Append(devs, d)

\* a push at the front
PushedFront(devs, d) == <<d>> \o devs

\* Vec::push
Pushed(devs, d) == Append(devs, d)

\* a failed resolution that is skipped: the guard is released normally
LockAfterPanicFree == "free"

\* the MutexGuard is dropped by a panicking thread: the mutex is poisoned
LockAfterPanic == "poisoned"

\* unwrap() panics inside an extern "C" function called by the native run loop:
\* the build decides whether the process aborts, the thread unwinds and ends, or
\* the run loop goes on
PanicOutcomes == {"aborted", "dead", "running"}

CallbackPush ==
    /\ At("device_callback", "push")
    /\ IF ret.kind = "ok"
       THEN /\ devices' = Pushed(devices, ret.val[1])
            /\ lock' = "free"
            /\ stack' = Exit("ok")
            /\ notes' = Noted("ok")
            /\ UNCHANGED worker
       ELSE /\ lock' = LockAfterPanic
            /\ stack' = Exit("panic")
            /\ notes' = Noted("panic")
            /\ worker' \in PanicOutcomes
            /\ UNCHANGED devices
    /\ UNCHANGED <<ret, trace, held, nextSid, fails, mounted, results, mounts,
                   hostDirs, snaps, decVars, pathVars, relayVars,
                   queueVars>>

-----------------------------------------------------------------------------
(* The operations a caller (or the notification thread) starts *)

Ops == {"install_app", "start_remote_lldb", "run_app", "device_callback"}

\* DeviceSupport listings of the host the operations run on
HostListings == {<<V133>>, <<V134, V1341>>}

Init ==
    /\ stack = <<>>
    /\ ret = NoRet
    /\ trace = <<>>
    /\ held = {}
    /\ nextSid = 1
    /\ fails = 0
    /\ mounted \in BOOLEAN
    /\ results = <<>>
    /\ mounts = <<>>
    /\ devices = <<>>
    /\ lock = "free"
    /\ notes = <<>>
    /\ snaps = <<>>
    /\ worker = "running"
    /\ DecIdle
    /\ hostDirs \in HostListings
    /\ PathIdle
    /\ RelayIdle

StartOp ==
    /\ stack = <<>>
    /\ results = <<>>
    /\ \E op \in Ops : stack' = <<Frame(op)>>
    /\ UNCHANGED <<ret, trace, held, nextSid, fails, sessRest>>

Next ==
    \/ StartOp
    \/ AMDeviceConnect
    \/ AMDeviceIsPaired
    \/ AMDeviceValidatePairing
    \/ AMDeviceStartSession
    \/ SessionDrop
    \/ ScopeExit
    \/ InstallAppEnsureSession
    \/ InstallAppPath
    \/ AMDeviceSecureTransferPath
    \/ AMDeviceSecureInstallApplication
    \/ DeviceSupportPathXcode
    \/ DeviceSupportPathRead
    \/ MountEnsureSession
    \/ MountDeviceSupportPath
    \/ MountReadSignature
    \/ AMDeviceMountImage
    \/ DebugServerMount
    \/ DebugServerEnsureSession
    \/ DebugServerSession
    \/ AMDeviceStartService
    \/ RemoteLldbEnsureSession
    \/ RemoteLldbDropSession
    \/ RemoteLldbDebugServer
    \/ RemoteLldbProxy
    \/ RunAppRemoteLldb
    \/ RunAppRunRemote
    \/ RunAppReturn
    \/ RunRemoteEnsureSession
    \/ RunRemoteSession
    \/ AMDeviceLookupApplications
    \/ RunRemoteLaunch
    \/ RunRemoteReturn
    \/ LaunchLldbEnsureSession
    \/ LaunchLldbSupportPath
    \/ LaunchLldbScript
    \/ LaunchLldbCommand
    \/ FromEnsureSession
    \/ FromSession
    \/ FromDeviceName
    \/ FromCpuArchitecture
    \/ FromDeviceIdentifier
    \/ CallbackLock
    \/ CallbackPush

Spec == Init /\ [][Next]_vars

-----------------------------------------------------------------------------
(* The support image lookup as a function of its inputs *)

InitPath ==
    /\ SessIdle
    /\ DecIdle
    /\ RelayIdle
    /\ ret = NoRet
    /\ devices = <<>>
    /\ hostDirs \in Listings
    /\ pVersion \in PathVersions
    /\ pResult = Err
    /\ pPc = "input"

PathLookup ==
    /\ pPc = "input"
    /\ pResult' = device_support_path(pVersion, hostDirs)
    /\ pPc' = "done"
    /\ UNCHANGED <<pVersion, sessVars, relayVars,
                   queueVars>>

NextPath == PathLookup

SpecPath == InitPath /\ [][NextPath]_vars

-----------------------------------------------------------------------------
(* Mounting again and again on one device *)

InitMount == Init

\* the next mount starts; of the earlier mounts the last one is remembered
StartMount ==
    /\ stack = <<>>
    /\ stack' = <<Frame("mount_developper_image")>>
    /\ ret' = NoRet
    /\ trace' = <<>>
    /\ nextSid' = 1
    /\ fails' = 0
    /\ results' = <<>>
    /\ mounts' = IF mounts = <<>> THEN <<>> ELSE <<mounts[Len(mounts)]>>
    /\ UNCHANGED <<held, mounted, devices, lock, hostDirs, regVars, decVars,
                   pathVars, relayVars,
                   queueVars>>

NextMount ==
    \/ StartMount
    \/ AMDeviceConnect
    \/ AMDeviceIsPaired
    \/ AMDeviceValidatePairing
    \/ AMDeviceStartSession
    \/ SessionDrop
    \/ ScopeExit
    \/ DeviceSupportPathXcode
    \/ DeviceSupportPathRead
    \/ MountEnsureSession
    \/ MountDeviceSupportPath
    \/ MountReadSignature
    \/ AMDeviceMountImage

SpecMount == InitMount /\ [][NextMount]_vars

-----------------------------------------------------------------------------
(* The device registry: the notification thread of IosManager::default runs
   device_callback once per notification of the native run loop, while any
   thread may call IosManager::devices. *)

MaxNotes == 2

\* AMDeviceNotificationCallbackInfo: the message type and the device handle.
\* The same device may be announced more than once.
Notifications ==
    {[msg |-> "connected", dev |-> 1], [msg |-> "connected", dev |-> 2],
     [msg |-> "disconnected", dev |-> 1]}

InitRegistry ==
    /\ SessIdle
    /\ DecIdle
    /\ ret = NoRet
    /\ devices = <<>>
    /\ hostDirs = <<V133>>
    /\ PathIdle
    /\ RelayIdle

\* the run loop delivers a notification: device_callback is entered
Notify ==
    /\ stack = <<>>
    /\ worker = "running"
    /\ Len(notes) < MaxNotes
    /\ \E n \in Notifications :
         notes' = Append(notes, [msg |-> n.msg, dev |-> n.dev, res |-> "pending"])
    /\ stack' = <<Frame("device_callback")>>
    /\ ret' = NoRet
    /\ trace' = <<>>
    /\ nextSid' = 1
    /\ fails' = 0
    /\ results' = <<>>
    /\ UNCHANGED <<held, mounted, mounts, devices, lock, hostDirs, snaps, worker,
                   decVars, pathVars, relayVars,
                   queueVars>>

\* the last two results of devices(), the newest last
Snapped(r) == IF snaps = <<>> THEN <<r>> ELSE <<snaps[Len(snaps)], r>>

\* IosManager::devices on another thread: lock, clone, unlock.  It waits while
\* the callback holds the guard; a poisoned mutex is the error "poisoned lock".
ListDevices ==
    /\ worker # "aborted"
    /\ lock # "held"
    /\ snaps' = Snapped(IF lock = "free" THEN [ok |-> TRUE, list |-> devices]
                        ELSE [ok |-> FALSE, list |-> <<>>])
    /\ UNCHANGED <<stack, ret, trace, held, nextSid, fails, mounted, results,
                   mounts, devices, lock, hostDirs, notes, worker, decVars,
                   pathVars, relayVars,
                   queueVars>>

NextRegistry ==
    \/ Notify
    \/ ListDevices
    \/ CallbackLock
    \/ CallbackLockPoisoned
    \/ CallbackPush
    \/ FromEnsureSession
    \/ FromSession
    \/ FromDeviceName
    \/ FromCpuArchitecture
    \/ FromDeviceIdentifier
    \/ AMDeviceConnect
    \/ AMDeviceIsPaired
    \/ AMDeviceValidatePairing
    \/ AMDeviceStartSession
    \/ SessionDrop
    \/ ScopeExit

SpecRegistry == InitRegistry /\ [][NextRegistry]_vars

-----------------------------------------------------------------------------
(* rustify as a function: one native value in, one Result<Value> out. *)

MaxStrLen == 3

\* characters of a string, bytes of a buffer
Symbols == {"a", "b", "1"}

Contents == UNION {[1..n -> Symbols] : n \in 0..MaxStrLen}

\* CFNumbers that to_i64 converts
Integers64 == {-2, -1, 0, 1, 2}

\* concrete types rustify has no branch for
OtherTypes == {"CFArray", "CFDictionary", "CFDate"}

RawInputs ==
    {CFStringRaw(c) : c \in Contents} \cup {CFDataRaw(c) : c \in Contents}
        \cup {CFNumberRaw(n, TRUE) : n \in Integers64} \cup {CFNumberRaw(0, FALSE)}
        \cup {CFBooleanRaw(b) : b \in BOOLEAN}
        \cup {Raw(t, <<>>, 0, FALSE, FALSE) : t \in OtherTypes}

InitDecode ==
    /\ SessIdle
    /\ rawIn \in RawInputs
    /\ decoded = <<>>
    /\ ret = NoRet
    /\ devices = <<>>
    /\ hostDirs = <<V133>>
    /\ PathIdle
    /\ RelayIdle

Decode ==
    /\ decoded = <<>>
    /\ decoded' = <<rustify(rawIn)>>
    /\ UNCHANGED <<rawIn, stack, ret, trace, held, nextSid, fails, mounted, results,
                   mounts, devices, lock, hostDirs, regVars, pathVars, relayVars,
                   queueVars>>

NextDecode == Decode

SpecDecode == InitDecode /\ [][NextDecode]_vars

-----------------------------------------------------------------------------
(* start_lldb_proxy: the relay thread *)

\* `let mut buffer = [0; 1024];`
BufferLen == 1024

RegistryEntry == [ptr |-> 1, id |-> SAbc123, name |-> SPhone, arch_cpu |-> "aarch64"]

InitRelay ==
    /\ SessIdle
    /\ DecIdle
    /\ ret = NoRet
    /\ devices = <<RegistryEntry>>
    /\ hostDirs = <<>>
    /\ PathIdle
    /\ bridge = "accepting"
    /\ conn = 0
    /\ cPending = <<>>
    /\ dPending = <<>>
    /\ cClosed = FALSE
    /\ dClosed = FALSE
    /\ cSent = 0
    /\ dSent = 0
    /\ cRead = <<>>
    /\ dRead = <<>>
    /\ dWritten = <<>>
    /\ cWritten = <<>>
    /\ lastIo = Io("none", "none", "none")
    /\ ends = <<>>
    /\ ioFails = 0
    /\ qOpen = FALSE
    /\ qPending = <<>>
    /\ qSent = 0

\* ---- the two peers

ClientSend ==
    /\ bridge = "relaying"
    /\ ~cClosed
    /\ cSent < MaxPayload
    /\ cSent' = cSent + 1
    /\ cPending' = Append(cPending, cSent + 1)
    /\ UNCHANGED <<bridge, conn, dPending, cClosed, dClosed, dSent, cRead, dRead,
                   dWritten, cWritten, lastIo, ends, ioFails, sessVars, pathVars, queueVars>>

ClientClose ==
    /\ bridge = "relaying"
    /\ ~cClosed
    /\ cClosed' = TRUE
    /\ UNCHANGED <<bridge, conn, cPending, dPending, dClosed, cSent, dSent, cRead,
                   dRead, dWritten, cWritten, lastIo, ends, ioFails, sessVars,
                   pathVars, queueVars>>

\* the relay's end of the device stream lives in the thread: once the thread is
\* dead it is closed and what the device writes reaches nobody (EPIPE)
DeviceSend ==
    /\ bridge \in {"accepting", "relaying"}
    /\ ~dClosed
    /\ dSent < MaxPayload
    /\ dSent' = dSent + 1
    /\ dPending' = Append(dPending, dSent + 1)
    /\ UNCHANGED <<bridge, conn, cPending, cClosed, dClosed, cSent, cRead, dRead,
                   dWritten, cWritten, lastIo, ends, ioFails, sessVars, pathVars, queueVars>>

DeviceClose ==
    /\ bridge # "none"
    /\ ~dClosed
    /\ dClosed' = TRUE
    /\ UNCHANGED <<bridge, conn, cPending, dPending, cClosed, cSent, dSent, cRead,
                   dRead, dWritten, cWritten, lastIo, ends, ioFails, sessVars,
                   pathVars, queueVars>>

\* a further client connects while the thread is busy: the listener queues it.
\* The listener lives in the thread: once the thread is dead, connects are refused.
NextClientConnect ==
    /\ bridge \in {"accepting", "relaying"}
    /\ ~qOpen
    /\ conn < MaxConns
    /\ qOpen' = TRUE
    /\ UNCHANGED <<qPending, qSent, relayVars, sessVars, pathVars>>

\* the waiting client sends before it is accepted; the queue of a listener that
\* was dropped with the thread is reset, and the write fails
NextClientSend ==
    /\ bridge \in {"accepting", "relaying"}
    /\ qOpen
    /\ qSent < MaxQueued
    /\ qSent' = qSent + 1
    /\ qPending' = Append(qPending, qSent + 1)
    /\ UNCHANGED <<qOpen, relayVars, sessVars, pathVars>>

\* ---- the results of the socket calls

\* a non-blocking read of a socket with `pending` unread bytes: the number of
\* bytes of an Ok(n), or a failure
ReadOutcomes(pending, closed) ==
    (IF pending # <<>> THEN {[r |-> "data", n |-> n] :
                               n \in 1..Min(BufferLen, Len(pending))}
     ELSE IF closed THEN {[r |-> "eof", n |-> 0]}
     ELSE {[r |-> "wouldblock", n |-> 0]})
    \cup (IF ioFails < MaxIoFails THEN {[r |-> "error", n |-> 0]} ELSE {})

\* write_all(&buffer[0..n]) on a non-blocking socket: all n bytes are taken, or
\* write fails after k < n of them, with WouldBlock or with another error
WriteOutcomes(n) ==
    {[w |-> "ok", k |-> n]}
        \cup {[w |-> kind, k |-> k] : kind \in {"wouldblock", "error"}, k \in 0..(n - 1)}

\* the thread after write_all returned: `?` makes server() return the error and
\* `server(proxy, device).unwrap()` panics
AfterWrite(w) == IF w = "ok" THEN "relaying" ELSE "dead"

\* a zero-length read that takes the whole thread down
AfterZeroReadDead == "dead"

\* `if n == 0 { break; }`: the for loop goes to the next incoming connection
AfterZeroRead == "accepting"

\* ---- the thread

\* `for stream in proxy.incoming()`: stream.expect(..) panics on a failed accept,
\* `stream.set_nonblocking(true)?` ends server() with the error
\* a listener that also hands out connections while a relay loop runs
AcceptsInAny == {"accepting", "relaying"}

\* where the thread calls accept: at the head of `for stream in proxy.incoming()`
AcceptsIn == {"accepting"}

\* the connection handed out is the one that waits in the listener's queue, with
\* the bytes its client has sent, or one that arrives just then
RelayAccept ==
    /\ bridge \in AcceptsIn
    /\ conn < MaxConns
    /\ \E ok \in BOOLEAN :
        /\ bridge' = IF ok THEN "relaying" ELSE "dead"
        /\ lastIo' = Io(IF ok THEN "accepted" ELSE "accept_error", "none", "none")
        /\ cPending' = IF ok THEN qPending ELSE <<>>
        /\ cSent' = IF ok THEN qSent ELSE 0
    /\ conn' = conn + 1
    /\ cClosed' = FALSE
    /\ cRead' = <<>>
    /\ dRead' = <<>>
    /\ dWritten' = <<>>
    /\ cWritten' = <<>>
    /\ qOpen' = FALSE
    /\ qPending' = <<>>
    /\ qSent' = 0
    /\ UNCHANGED <<dPending, dClosed, dSent, ends, ioFails, sessVars, pathVars>>

\* stream.read gave Ok(n), n > 0: device.write_all(&buffer[0..n])?
RelayClientData ==
    /\ bridge = "relaying"
    /\ \E cr \in ReadOutcomes(cPending, cClosed) :
        /\ cr.r = "data"
        /\ \E wr \in WriteOutcomes(cr.n) :
            /\ cRead' = cRead \o SubSeq(cPending, 1, cr.n)
            /\ cPending' = SubSeq(cPending, cr.n + 1, Len(cPending))
            /\ dWritten' = dWritten \o SubSeq(cPending, 1, wr.k)
            /\ bridge' = AfterWrite(wr.w)
            /\ lastIo' = Io("data", "none", wr.w)
    /\ UNCHANGED <<conn, dPending, cClosed, dClosed, cSent, dSent, dRead, cWritten,
                   ends, ioFails, sessVars, pathVars, queueVars>>

\* stream.read gave Ok(0): break
RelayClientEof ==
    /\ bridge = "relaying"
    /\ \E cr \in ReadOutcomes(cPending, cClosed) :
        /\ cr.r = "eof"
        /\ bridge' = AfterZeroRead
        /\ lastIo' = Io("eof", "none", "none")
        /\ ends' = Append(ends, "client_eof")
    /\ UNCHANGED <<conn, cPending, dPending, cClosed, dClosed, cSent, dSent, cRead,
                   dRead, dWritten, cWritten, ioFails, sessVars, pathVars, queueVars>>

\* of the two reads of an iteration, how many failed with an error
Charged(a, b) == (IF a = "error" THEN 1 ELSE 0) + (IF b = "error" THEN 1 ELSE 0)

\* stream.read gave an Err, device.read gave Ok(n), n > 0:
\* stream.write_all(&buffer[0..n])?
RelayDeviceData ==
    /\ bridge = "relaying"
    /\ \E cr \in ReadOutcomes(cPending, cClosed) :
        /\ cr.r \in {"wouldblock", "error"}
        /\ \E dr \in ReadOutcomes(dPending, dClosed) :
            /\ dr.r = "data"
            /\ \E wr \in WriteOutcomes(dr.n) :
                /\ dRead' = dRead \o SubSeq(dPending, 1, dr.n)
                /\ dPending' = SubSeq(dPending, dr.n + 1, Len(dPending))
                /\ cWritten' = cWritten \o SubSeq(dPending, 1, wr.k)
                /\ bridge' = AfterWrite(wr.w)
                /\ lastIo' = Io(cr.r, "data", wr.w)
                /\ ioFails' = ioFails + Charged(cr.r, "none")
    /\ UNCHANGED <<conn, cPending, cClosed, dClosed, cSent, dSent, cRead, dWritten,
                   ends, sessVars, pathVars, queueVars>>

\* stream.read gave an Err, device.read gave Ok(0): break
RelayDeviceEof ==
    /\ bridge = "relaying"
    /\ \E cr \in ReadOutcomes(cPending, cClosed) :
        /\ cr.r \in {"wouldblock", "error"}
        /\ \E dr \in ReadOutcomes(dPending, dClosed) :
            /\ dr.r = "eof"
            /\ bridge' = AfterZeroRead
            /\ lastIo' = Io(cr.r, "eof", "none")
            /\ ends' = Append(ends, "device_eof")
            /\ ioFails' = ioFails + Charged(cr.r, "none")
    /\ UNCHANGED <<conn, cPending, dPending, cClosed, dClosed, cSent, dSent, cRead,
                   dRead, dWritten, cWritten, sessVars, pathVars, queueVars>>

\* both reads gave an Err, of whatever kind: thread::sleep(10 ms), loop again
RelaySleep ==
    /\ bridge = "relaying"
    /\ \E cr \in ReadOutcomes(cPending, cClosed) :
        /\ cr.r \in {"wouldblock", "error"}
        /\ \E dr \in ReadOutcomes(dPending, dClosed) :
            /\ dr.r \in {"wouldblock", "error"}
            /\ ioFails + Charged(cr.r, dr.r) <= MaxIoFails
            /\ lastIo' = Io(cr.r, dr.r, "none")
            /\ ioFails' = ioFails + Charged(cr.r, dr.r)
    /\ UNCHANGED <<bridge, conn, cPending, dPending, cClosed, dClosed, cSent, dSent,
                   cRead, dRead, dWritten, cWritten, ends, sessVars, pathVars, queueVars>>

NextRelay ==
    \/ ClientSend
    \/ ClientClose
    \/ DeviceSend
    \/ DeviceClose
    \/ NextClientConnect
    \/ NextClientSend
    \/ RelayAccept
    \/ RelayClientData
    \/ RelayClientEof
    \/ RelayDeviceData
    \/ RelayDeviceEof
    \/ RelaySleep

SpecRelay == InitRelay /\ [][NextRelay]_vars

-----------------------------------------------------------------------------
(* The relay with a client that never stops sending.  Of what was read from the
   client and written to the device the last MaxPayload bytes are kept. *)

Recent(q) == IF Len(q) <= MaxPayload THEN q ELSE SubSeq(q, Len(q) - MaxPayload + 1, Len(q))

\* the client writes another byte; the count of its bytes stops at MaxPayload
ClientStream ==
    /\ bridge = "relaying"
    /\ ~cClosed
    /\ Len(cPending) < MaxPayload
    /\ cSent' = Min(cSent + 1, MaxPayload)
    /\ cPending' = Append(cPending, Min(cSent + 1, MaxPayload))
    /\ UNCHANGED <<bridge, conn, dPending, cClosed, dClosed, dSent, cRead, dRead,
                   dWritten, cWritten, lastIo, ends, ioFails, sessVars, pathVars,
                   queueVars>>

\* stream.read gave Ok(n), n > 0: device.write_all(&buffer[0..n])?
RelayStreamData ==
    /\ bridge = "relaying"
    /\ \E cr \in ReadOutcomes(cPending, cClosed) :
        /\ cr.r = "data"
        /\ \E wr \in WriteOutcomes(cr.n) :
            /\ cRead' = Recent(cRead \o SubSeq(cPending, 1, cr.n))
            /\ cPending' = SubSeq(cPending, cr.n + 1, Len(cPending))
            /\ dWritten' = Recent(dWritten \o SubSeq(cPending, 1, wr.k))
            /\ bridge' = AfterWrite(wr.w)
            /\ lastIo' = Io("data", "none", wr.w)
    /\ UNCHANGED <<conn, dPending, cClosed, dClosed, cSent, dSent, dRead, cWritten,
                   ends, ioFails, sessVars, pathVars, queueVars>>

\* a step of the thread spawned by start_lldb_proxy
RelayThread ==
    \/ RelayAccept
    \/ RelayStreamData
    \/ RelayClientEof
    \/ RelayDeviceData
    \/ RelayDeviceEof
    \/ RelaySleep

NextProgress ==
    \/ ClientStream
    \/ ClientClose
    \/ DeviceSend
    \/ DeviceClose
    \/ RelayAccept
    \/ RelayStreamData
    \/ RelayClientEof
    \/ RelayDeviceData
    \/ RelayDeviceEof
    \/ RelaySleep

\* the thread is scheduled as long as it has a step to take
SpecProgress == InitRelay /\ [][NextProgress]_vars /\ WF_vars(RelayThread)

-----------------------------------------------------------------------------
(* Properties of the session guard *)

Calls(c, s) == {i \in 1..Len(trace) : trace[i].c = c /\ trace[i].s = s}

Opened == 1..(nextSid - 1)

\* the Session is a local of a frame, is being dropped, or was just returned by
\* ensure_session to a caller that has not bound it yet
InFrame(s) ==
    \/ \E k \in 1..Len(stack) : stack[k].sess = s
    \/ stack # <<>> /\ Top.pc = "ensured" /\ ret.kind = "ok" /\ ret.sess = s

Finished == stack = <<>> /\ results # <<>>

\* C1: every Session that was opened is, once the function that opened it has
\* returned, released by exactly one AMDeviceStopSession followed by exactly one
\* AMDeviceDisconnect, whether the function succeeded or failed; while the
\* function still owns it, it is not released.
C1_ReleaseAlwaysRuns ==
    \A s \in Opened :
        IF InFrame(s)
        THEN Calls("AMDeviceStopSession", s) = {} /\ Calls("AMDeviceDisconnect", s) = {}
        ELSE /\ Cardinality(Calls("AMDeviceStopSession", s)) = 1
             /\ Cardinality(Calls("AMDeviceDisconnect", s)) = 1
             /\ \A i \in Calls("AMDeviceStopSession", s) :
                    \A j \in Calls("AMDeviceDisconnect", s) : i < j

\* install_app failed at the transfer, inside the Session, and has returned
C1_Witness ==
    /\ Finished
    /\ results[1].op = "install_app"
    /\ results[1].res = "err"
    /\ \E i \in 1..Len(trace) :
          trace[i].c = "AMDeviceSecureTransferPath" /\ ~trace[i].ok
    /\ Cardinality(Calls("AMDeviceDisconnect", 1)) = 1

Is(i, c) == i >= 1 /\ i <= Len(trace) /\ trace[i].c = c /\ trace[i].ok

\* C2: the native steps of an open come in the order connect, is-paired,
\* validate pairing, start session, each made only directly after the one before
\* it succeeded (so a failed step is followed by no later step), and a Session
\* exists only for a start-session that succeeded after the three others.
C2_OpenOrder ==
    /\ \A i \in 1..Len(trace) :
          /\ trace[i].c = "AMDeviceIsPaired" => Is(i - 1, "AMDeviceConnect")
          /\ trace[i].c = "AMDeviceValidatePairing" => Is(i - 1, "AMDeviceIsPaired")
          /\ trace[i].c = "AMDeviceStartSession" =>
                /\ Is(i - 1, "AMDeviceValidatePairing")
                /\ Is(i - 2, "AMDeviceIsPaired")
                /\ Is(i - 3, "AMDeviceConnect")
          /\ trace[i].c = "AMDeviceStartSession" => (trace[i].ok <=> trace[i].s # 0)
    /\ \A s \in Opened : \E i \in Calls("AMDeviceStartSession", s) : trace[i].ok
    /\ held \subseteq Opened
    /\ \A k \in 1..Len(stack) : stack[k].sess # 0 => stack[k].sess \in Opened
    /\ Cardinality({i \in 1..Len(trace) : Is(i, "AMDeviceStartSession")}) = nextSid - 1

\* an open was aborted by a failed pairing validation: nothing was started and no
\* Session came back
C2_Witness ==
    /\ trace # <<>>
    /\ trace[Len(trace)].c = "AMDeviceValidatePairing"
    /\ ~trace[Len(trace)].ok
    /\ ret.kind = "err"
    /\ nextSid = 1

\* C3 (as claimed): at most one Session exists at any time
C3_OneSessionAtATime == Cardinality(held) <= 1

Requests ==
    {"AMDeviceCopyValue", "AMDeviceMountImage", "AMDeviceStartService",
     "AMDeviceLookupApplications"}

\* C4 (as claimed): every property read, mount request, service start and
\* application lookup is made while a Session exists
C4_SessionBeforeRequest ==
    \A i \in 1..Len(trace) : trace[i].c \in Requests => trace[i].h # {}

\* C5: a stop-session call, whatever it answers, is directly followed by the
\* disconnect of the same Session, and the value a function returns is the one
\* its body produced, whatever the release calls answered.
C5_ReleaseBestEffort ==
    /\ \A i \in 1..Len(trace) :
          trace[i].c = "AMDeviceStopSession" =>
              /\ i < Len(trace)
              /\ trace[i + 1].c = "AMDeviceDisconnect"
              /\ trace[i + 1].s = trace[i].s
    /\ ret.kind \in {"ok", "err", "panic"} => ret.kind = ret.body
    /\ \A k \in 1..Len(results) : results[k].res = results[k].body

\* an operation returned success although both release calls of its Session
\* failed
C5_Witness ==
    /\ Finished
    /\ results[1].op = "install_app"
    /\ results[1].res = "ok"
    /\ \E i \in 1..Len(trace) : trace[i].c = "AMDeviceStopSession" /\ ~trace[i].ok
    /\ \E i \in 1..Len(trace) : trace[i].c = "AMDeviceDisconnect" /\ ~trace[i].ok

-----------------------------------------------------------------------------
(* Properties of the mount and of the support image lookup *)

\* C6: the already-mounted code 0xe8000076 answered by the mount request is
\* reported as success, as is 0, and every other code as an error; a mount that
\* follows a successful mount and gets the device's answer succeeds too, and the
\* caller of mount_developper_image sees that result.
C6_MountIdempotent ==
    /\ \A k \in 1..Len(mounts) :
          /\ mounts[k].rv = AlreadyMountedRv => mounts[k].res = "ok"
          /\ mounts[k].rv = 0 => mounts[k].res = "ok"
          /\ mounts[k].rv \notin {0, AlreadyMountedRv} => mounts[k].res = "err"
    /\ (Len(mounts) = 2 /\ mounts[1].res = "ok" /\ mounts[2].rv \notin MountErrors)
          => mounts[2].rv = AlreadyMountedRv /\ mounts[2].res = "ok"
    /\ (Finished /\ \E i \in 1..Len(trace) : trace[i].c = "AMDeviceMountImage")
          => results[1].res = mounts[Len(mounts)].res

\* two mounts in succession, the second answered "already mounted", both
\* returned success
C6_Witness ==
    /\ Finished
    /\ Len(mounts) = 2
    /\ mounts[1].rv = 0
    /\ mounts[1].res = "ok"
    /\ mounts[2].rv = AlreadyMountedRv
    /\ results[1].op = "mount_developper_image"
    /\ results[1].res = "ok"

Range(q) == {q[i] : i \in 1..Len(q)}

LookupDone == pPc = "done" /\ pVersion = CFStringRaw(V1341)

\* C7 (as claimed): with the directories 13.3, 13.4 and 13.4.1 listed in any
\* order, the lookup for a device on 13.4.1 selects 13.4.1
C7_SelectsLongest ==
    (LookupDone /\ Range(hostDirs) = {V133, V134, V1341})
        => pResult = Ok(<<V1341>>)

\* C7 (amended): with those directories listed (in any order, among others), the
\* lookup for a device on 13.4.1 selects the first listed entry whose name starts
\* with "13.4": 13.4 or 13.4.1, whichever read_dir yields first, never 13.3.
C7_SelectsFirstMatch ==
    (LookupDone /\ {V133, V134, V1341} \subseteq Range(hostDirs))
        => /\ pResult.ok
           /\ Len(pResult.val) = 1
           /\ pResult.val[1] \in {V134, V1341}
           /\ \E i \in 1..Len(hostDirs) :
                 /\ hostDirs[i] = pResult.val[1]
                 /\ \A j \in 1..(i - 1) : hostDirs[j] \notin {V134, V1341}

\* the listing has 13.4 before 13.4.1 and the lookup selected 13.4
C7_Witness ==
    /\ LookupDone
    /\ Range(hostDirs) = {V133, V134, V1341}
    /\ pResult = Ok(<<V134>>)

-----------------------------------------------------------------------------
(* Properties of the relay *)

HardError(io) == io.cr = "error" \/ io.dr = "error" \/ io.w = "error"

\* C8 (as claimed): unless a socket failed with an error other than would-block,
\* after every loop iteration the bytes written to the device are exactly the
\* bytes read from the client and the bytes written to the client exactly those
\* read from the device
C8_RelayFidelity ==
    (bridge # "none" /\ ~HardError(lastIo))
        => dWritten = cRead /\ cWritten = dRead

ZeroRead(io) == io.cr = "eof" \/ io.dr = "eof"

\* C9: a zero-length read from the client or from the device ends the relay loop
\* of the connection and nothing else: the thread is back at accepting (and
\* accepts the next connection offered), every connection that ended did so by
\* a zero-length read, and the registry is what it was.
C9_ZeroReadEndsConnectionOnly ==
    /\ ZeroRead(lastIo) =>
          /\ bridge = "accepting"
          /\ ends # <<>>
          /\ conn < MaxConns => ENABLED RelayAccept
    /\ \A k \in 1..Len(ends) : ends[k] \in {"client_eof", "device_eof"}
    /\ Len(ends) <= conn
    /\ bridge # "none" => devices = <<RegistryEntry>>

\* the first connection ended by the client's close, the second was accepted,
\* relayed a byte and ended by the device's close
C9_Witness ==
    /\ conn = 2
    /\ ends = <<"client_eof", "device_eof">>
    /\ lastIo.dr = "eof"
    /\ bridge = "accepting"
    /\ dWritten # <<>>
    /\ devices = <<RegistryEntry>>

\* C10 (as claimed): after an I/O error other than would-block on a connection
\* the thread is still alive
C10_ErrorKeepsBridgeAlive ==
    (bridge # "none" /\ HardError(lastIo)) => bridge # "dead"

-----------------------------------------------------------------------------
(* The registry and the decoder. *)

Resolved(i) == notes[i].res = "ok"

OkNotes == SelectSeq(notes, LAMBDA n : n.res = "ok")

OnlyAppearances == \A i \in 1..Len(notes) : notes[i].msg = "connected"

\* C11: the registry does not deduplicate: as long as only device-appeared
\* notifications were delivered, the registry holds exactly one entry per
\* notification whose identity resolution succeeded, repeated devices included.
C11_NoDeduplication ==
    OnlyAppearances => Len(devices) = Len(OkNotes)

\* the same device was announced twice and is listed twice, with the id "abc123"
C11_Witness ==
    /\ Len(notes) = 2
    /\ notes[1] = notes[2]
    /\ notes[1].msg = "connected"
    /\ Resolved(1)
    /\ snaps # <<>>
    /\ snaps[Len(snaps)].ok
    /\ Len(snaps[Len(snaps)].list) = 2
    /\ \A e \in Range(snaps[Len(snaps)].list) : e.id = SAbc123

\* C12: rustify answers a CFString with Value::String of its text, a CFData with
\* Value::Data of its bytes, a CFNumber that converts to i64 with Value::I64 of
\* that integer, a CFBoolean with Value::Boolean that is true exactly for
\* kCFBooleanTrue, and a CFNumber that does not convert or a value of any other
\* type with an error that carries no value.
C12_DecodeDispatch ==
    decoded # <<>> =>
        LET r == decoded[1] IN
        /\ rawIn.t = "CFString" => r = Ok(<<ValueString(rawIn.s)>>)
        /\ rawIn.t = "CFData" => r = Ok(<<ValueData(rawIn.s)>>)
        /\ (rawIn.t = "CFNumber" /\ rawIn.conv) => r = Ok(<<ValueI64(rawIn.n)>>)
        /\ rawIn.t = "CFBoolean" =>
              /\ r.ok
              /\ r.val[1].tag = "Boolean"
              /\ r.val[1].b <=> rawIn.b
        /\ (rawIn.t = "CFNumber" /\ ~rawIn.conv) => (~r.ok /\ r.val = <<>>)
        /\ rawIn.t \in OtherTypes => (~r.ok /\ r.val = <<>>)

\* a date was handed to rustify and refused
C12_Witness ==
    /\ rawIn.t = "CFDate"
    /\ decoded = <<Err>>

IsPrefix(a, b) == Len(a) <= Len(b) /\ SubSeq(b, 1, Len(a)) = a

Handles(q) == [i \in 1..Len(q) |-> q[i].ptr]

Arrivals == [i \in 1..Len(OkNotes) |-> OkNotes[i].dev]

Complete(e) ==
    /\ e.id # <<>>
    /\ e.name # <<>>
    /\ e.arch_cpu \in {"aarch64", "armv7"}

\* C15: every list devices() returned is a prefix of the registry and of every
\* list it returned later, holds the devices in the order their notifications
\* arrived, and holds only entries whose id, name and architecture are resolved.
C15_SnapshotsArePrefixes ==
    /\ \A i \in 1..Len(snaps) :
          snaps[i].ok =>
              /\ IsPrefix(snaps[i].list, devices)
              /\ IsPrefix(Handles(snaps[i].list), Arrivals)
              /\ \A e \in Range(snaps[i].list) : Complete(e)
    /\ \A i, j \in 1..Len(snaps) :
          (i < j /\ snaps[i].ok /\ snaps[j].ok) => IsPrefix(snaps[i].list, snaps[j].list)

\* devices() was called between two appends and after them, of different devices
C15_Witness ==
    /\ Len(snaps) = 2
    /\ snaps[1].ok /\ snaps[2].ok
    /\ Len(snaps[1].list) = 1
    /\ Len(snaps[2].list) = 2
    /\ snaps[2].list[1].ptr # snaps[2].list[2].ptr

Last(q) == q[Len(q)]

\* C16 (as claimed): a device-disappeared notification makes no native call on
\* the device, opens no Session, appends no entry and cannot end in a panic
C16_DetachIgnored ==
    (notes # <<>> /\ Last(notes).msg = "disconnected") =>
        /\ trace = <<>>
        /\ held = {}
        /\ Last(notes).res \notin {"ok", "panic"}

Before(i) == {k \in 1..(i - 1) : Resolved(k)}

\* C17: once the resolution of a device has failed (a step of ensure_session
\* failed, or a value was missing or refused by rustify) the unwrap panics:
\* nothing is appended for that device, the notification thread does not go on
\* with a usable registry, and no notification after it is made into an entry;
\* the registry stays what the notifications before the failure made it.
C17_FailureStopsDiscovery ==
    \A i \in 1..Len(notes) :
        notes[i].res = "panic" =>
            /\ Len(devices) = Cardinality(Before(i))
            /\ \A j \in (i + 1)..Len(notes) : ~Resolved(j)
            /\ worker # "running" \/ lock = "poisoned"

\* the first resolution failed, and a later notification was delivered to a
\* thread that survived: it was dropped
C17_Witness ==
    /\ Len(notes) = 2
    /\ notes[1].res = "panic"
    /\ notes[2].res = "skipped"
    /\ devices = <<>>

\* C18 (as claimed): while the callback holds the mutex of the registry it runs
\* nothing but the append: no frame of IosDevice::from or ensure_session is
\* active and no Session is open
C18_LockOnlyForAppend ==
    lock = "held" =>
        /\ \A k \in 1..Len(stack) : stack[k].fn = "device_callback"
        /\ held = {}

InStarter == \E k \in 1..Len(stack) : stack[k].fn = "start_remote_debug_server"

StartServiceAfterMount ==
    \A i \in 1..Len(trace) :
        trace[i].c = "AMDeviceStartService" =>
            /\ mounts # <<>>
            /\ Last(mounts).res = "ok"
            /\ \E j \in 1..(i - 1) : trace[j].c = "AMDeviceMountImage"

MountFailureReturned ==
    (mounts # <<>> /\ Last(mounts).res # "ok") =>
        /\ Calls("AMDeviceStartService", 0) = {}
        /\ \A k \in 1..Len(results) : results[k].res # "ok"
        /\ (InStarter /\ Top.fn = "start_remote_debug_server") => Top.pc \in {"mounted", "exit"}

\* C13 (as claimed): the debugserver service is requested only after a mount
\* that succeeded, a failed mount is returned without a service request, and no
\* mount request is made while start_remote_debug_server runs
C13_StarterDoesNotMount ==
    /\ StartServiceAfterMount
    /\ MountFailureReturned
    /\ InStarter => Calls("AMDeviceMountImage", 0) = {}

\* C13 (amended): the debugserver service is requested only after a mount that
\* succeeded (0 or the already-mounted code), a failed mount is returned without
\* a service request, and the mount is run by start_remote_debug_server itself:
\* mount_developper_image is always its callee.
C13_StarterMountsFirst ==
    /\ StartServiceAfterMount
    /\ MountFailureReturned
    /\ \A k \in 1..Len(stack) :
          stack[k].fn = "mount_developper_image" =>
              (k > 1 /\ stack[k - 1].fn = "start_remote_debug_server")

\* the device answered the mount with the already-mounted code and the service
\* was requested after it, inside start_remote_debug_server
C13_Witness ==
    /\ InStarter
    /\ mounts # <<>>
    /\ Last(mounts).rv = AlreadyMountedRv
    /\ Calls("AMDeviceStartService", 0) # {}

Transfers == {i \in 1..Len(trace) : trace[i].c = "AMDeviceSecureTransferPath"}

Installs == {i \in 1..Len(trace) : trace[i].c = "AMDeviceSecureInstallApplication"}

\* C14: install_app makes at most one transfer and one install request; the
\* install request comes directly after a transfer that returned 0; after a
\* request that returned non-zero neither is made again and install_app returns
\* an error; it returns Ok only after both were made and returned 0.
C14_TransferThenInstall ==
    /\ Cardinality(Transfers) <= 1
    /\ Cardinality(Installs) <= 1
    /\ \A i \in Installs : Is(i - 1, "AMDeviceSecureTransferPath")
    /\ \A i \in Transfers \cup Installs :
          ~trace[i].ok =>
              /\ \A j \in Transfers \cup Installs : j <= i
              /\ \A k \in 1..Len(results) : results[k].res # "ok"
    /\ \A k \in 1..Len(results) :
          (results[k].op = "install_app" /\ results[k].res = "ok") =>
              /\ \E i \in Transfers : trace[i].ok
              /\ \E i \in Installs : trace[i].ok

\* the transfer succeeded, the install failed and install_app returned the error
C14_Witness ==
    /\ Finished
    /\ results[1].op = "install_app"
    /\ results[1].res = "err"
    /\ \E i \in Installs : ~trace[i].ok /\ Is(i - 1, "AMDeviceSecureTransferPath")

WouldBlock(io) == io.cr = "wouldblock" \/ io.dr = "wouldblock" \/ io.w = "wouldblock"

\* C19 (as claimed): a loop iteration in which a read or a write met would-block,
\* and no call met a zero-length read or another error, leaves the thread in the
\* relay loop of the same connection
C19_WouldBlockIsNormal ==
    (WouldBlock(lastIo) /\ ~ZeroRead(lastIo) /\ ~HardError(lastIo))
        => bridge = "relaying"

\* C20 (as claimed): after a loop iteration in which a read or a write failed
\* with an error other than would-block the thread is no longer in the relay
\* loop of that connection
C20_ErrorEndsRelayLoop ==
    HardError(lastIo) => bridge # "relaying"

Stream(n) == [i \in 1..n |-> i]

\* C21: the thread accepts a connection only when no relay loop runs: while it
\* relays, every connection accepted before the current one has ended; the
\* bytes of a client that waits to be accepted all stay unread in its socket;
\* what the loop has read from the client is the head of what the client of the
\* current connection sent, and the device's bytes are read by this one loop, each
\* at most once.
C21_OneConnectionAtATime ==
    bridge # "none" =>
        /\ bridge = "relaying" => conn = Len(ends) + 1
        /\ bridge = "accepting" => conn = Len(ends)
        /\ qPending = Stream(qSent)
        /\ cRead \o cPending = Stream(cSent)
        /\ Len(dRead) + Len(dPending) <= dSent

\* a second client has connected and sent a byte while the first connection is
\* being relayed
C21_Witness ==
    /\ bridge = "relaying"
    /\ conn = 1
    /\ cRead # <<>>
    /\ dWritten # <<>>
    /\ qOpen
    /\ qPending # <<>>

Debugger == {i \in 1..Len(trace) : trace[i].c = "lldb"}

Done(c) == {i \in 1..Len(trace) : trace[i].c = c /\ trace[i].ok}

Mounts == {i \in 1..Len(trace) : trace[i].c = "AMDeviceMountImage"}

\* the debugger is run after a mount that succeeded, a debugserver start that
\* succeeded, a proxy that was started and an application lookup that succeeded,
\* in this order
DebuggerLast ==
    \A i \in Debugger :
        \E m \in Mounts :
            /\ mounts # <<>> /\ Last(mounts).res = "ok"
            /\ \E d \in Done("AMDeviceStartService") :
                /\ m < d
                /\ \E p \in Done("start_lldb_proxy") :
                    /\ d < p
                    /\ \E l \in Done("AMDeviceLookupApplications") : p < l /\ l < i

\* C22 (as claimed): run_app runs the debugger only after the mount, the
\* debugserver start, the proxy start and the application lookup succeeded, in
\* this order, and a run_app that ended without running the debugger returned an
\* error
C22_RunAppControlFlow ==
    /\ DebuggerLast
    /\ \A k \in 1..Len(results) :
          (results[k].op = "run_app" /\ Debugger = {}) => results[k].res = "err"

Disconnects == {i \in 1..Len(trace) : trace[i].c = "AMDeviceDisconnect"}

\* C23 (as claimed): once an operation has returned, as many AMDeviceDisconnect
\* calls were made as AMDeviceConnect calls succeeded, also when an open failed
\* after its connect
C23_ConnectDisconnectBalanced ==
    Finished => Cardinality(Done("AMDeviceConnect")) = Cardinality(Disconnects)

Excused == bridge # "relaying" \/ cClosed \/ dClosed \/ HardError(lastIo)

\* C24 (as claimed), the device-to-client direction: while a connection is
\* relayed, bytes readable on the device socket are eventually read and written
\* to the client, whatever the client sends meanwhile, unless the connection
\* ends, a side closes or a call fails
C24_RelayProgress ==
    (bridge = "relaying" /\ dPending # <<>>) ~> (dPending = <<>> \/ Excused)

====
